---- MODULE Spec2Model ----
(***************************************************************************)
(* NetNeighbor (src/src/main.rs): a poll loop that reads the ARP and the   *)
(* ip-neigh tables through one shell command, parses both texts into       *)
(* Device records, and keeps a map  key -> (device, last_seen)  from which *)
(* it prints CONNECTED and DISCONNECTED events.                            *)
(*                                                                         *)
(* Text is modelled as TLA+ strings and scanned character by character,    *)
(* as the Rust string methods the parsers call do.  Time is an integer     *)
(* number of ticks, TicksPerSec ticks to the second, so that Instant       *)
(* differences that are not whole seconds exist in the model.              *)
(***************************************************************************)
EXTENDS Integers, Sequences, FiniteSets, TLC

(***************************************************************************)
(* Bounds of the model.                                                    *)
(***************************************************************************)
\* Resolution of the clock: ticks per second.
TicksPerSec == 2
\* A sleep of `interval` seconds plus the time the reader command takes
\* lasts interval * TicksPerSec + j ticks, j in 0..MaxJitter.
MaxJitter == 2
\* The clock is followed for MaxSeconds seconds: no sleep ends later.
MaxSeconds == 18
MaxClock == MaxSeconds * TicksPerSec

(***************************************************************************)
(* Rust string methods used by the parsers.                                *)
(***************************************************************************)
Char(s, i) == SubSeq(s, i, i)

\* str::starts_with
StartsWith(s, p) == Len(s) >= Len(p) /\ SubSeq(s, 1, Len(p)) = p

\* str::contains
Contains(s, p) ==
    \E i \in 1..(Len(s) - Len(p) + 1) : SubSeq(s, i, i + Len(p) - 1) = p

\* str::find: the index of the first occurrence of p in s, 0 when none.
Find(s, p) ==
    LET at == {i \in 1..(Len(s) - Len(p) + 1) : SubSeq(s, i, i + Len(p) - 1) = p}
    IN  IF at = {} THEN 0 ELSE CHOOSE i \in at : \A j \in at : i <= j

\* str::split(pattern), collected: the pieces between the occurrences of p.
RECURSIVE Split(_, _)
Split(s, p) ==
    LET i == Find(s, p)
    IN  IF i = 0 THEN << s >>
        ELSE << SubSeq(s, 1, i - 1) >> \o Split(SubSeq(s, i + Len(p), Len(s)), p)

\* str::lines: split at line feeds, a trailing empty piece is not a line.
Lines(s) ==
    LET ps == Split(s, "\n")
    IN  IF ps[Len(ps)] = "" THEN SubSeq(ps, 1, Len(ps) - 1) ELSE ps

IsWhitespace(c) == c \in {" ", "\t", "\n"}

\* str::split_whitespace, collected: the maximal runs of non-whitespace
\* characters, in the order of their first characters.
TokenStarts(s) ==
    {i \in 1..Len(s) :
        ~IsWhitespace(Char(s, i)) /\ (i = 1 \/ IsWhitespace(Char(s, i - 1)))}

TokenEnd(s, i) ==
    CHOOSE j \in i..Len(s) :
        /\ \A k \in i..j : ~IsWhitespace(Char(s, k))
        /\ (j = Len(s) \/ IsWhitespace(Char(s, j + 1)))

SplitWhitespace(s) ==
    LET starts == TokenStarts(s)
        nth(n) == CHOOSE i \in starts : Cardinality({j \in starts : j < i}) = n - 1
    IN  [n \in 1..Cardinality(starts) |-> SubSeq(s, nth(n), TokenEnd(s, nth(n)))]

\* str::trim_start_matches(c): every leading c is removed.
RECURSIVE TrimStartMatches(_, _)
TrimStartMatches(s, c) ==
    IF StartsWith(s, c) /\ Len(s) > 0
    THEN TrimStartMatches(SubSeq(s, 2, Len(s)), c)
    ELSE s

\* str::trim_end_matches(c): every trailing c is removed.
RECURSIVE TrimEndMatches(_, _)
TrimEndMatches(s, c) ==
    IF Len(s) > 0 /\ Char(s, Len(s)) = c
    THEN TrimEndMatches(SubSeq(s, 1, Len(s) - 1), c)
    ELSE s

(***************************************************************************)
(* Device and its key.                                                     *)
(***************************************************************************)
\* Device::new
Device(ip, mac, interface) ==
    [ip_address |-> ip, mac_address |-> mac, interface |-> interface]

\* Device::key: format!("{}-{}", ip_address, mac_address)
key(d) == d.ip_address \o "-" \o d.mac_address

\* Option<&str>: None is the empty sequence, Some(x) is << x >>.
None == << >>
Some(x) == << x >>

(***************************************************************************)
(* The parsers.  A Vec<Device> is a sequence of Device records.            *)
(***************************************************************************)
\* The test of line 145: the address is not loopback, multicast or broadcast.
LooksLikeNetworkAddress(ip) ==
    /\ ~StartsWith(ip, "127.")
    /\ ~StartsWith(ip, "224.")
    /\ ~StartsWith(ip, "255.")
    /\ ip # "::1"

\* arp_line taking the MAC one token early (Rust parts[2], the word "at").
arp_line_mac_at_2(line, interface_filter) ==
    IF ~(Contains(line, "at") /\ Contains(line, "on")) THEN << >>
    ELSE LET parts == SplitWhitespace(line)
         IN  IF Len(parts) < 7 THEN << >>
             ELSE LET ip    == TrimEndMatches(TrimStartMatches(parts[2], "("), ")")
                      mac   == parts[3]
                      iface == parts[7]
                  IN  IF interface_filter # None /\ iface # interface_filter[1]
                      THEN << >>
                      ELSE IF LooksLikeNetworkAddress(ip)
                           THEN << Device(ip, mac, iface) >>
                           ELSE << >>

\* One iteration of the loop of parse_arp_entries: what the line pushes.
\* parts[1], parts[3], parts[6] of Rust are parts[2], parts[4], parts[7] here.
arp_line(line, interface_filter) ==
    IF ~(Contains(line, "at") /\ Contains(line, "on")) THEN << >>
    ELSE LET parts == SplitWhitespace(line)
         IN  IF Len(parts) < 7 THEN << >>
             ELSE LET ip    == TrimEndMatches(TrimStartMatches(parts[2], "("), ")")
                      mac   == parts[4]
                      iface == parts[7]
                  IN  IF interface_filter # None /\ iface # interface_filter[1]
                      THEN << >>
                      ELSE IF LooksLikeNetworkAddress(ip)
                           THEN << Device(ip, mac, iface) >>
                           ELSE << >>

\* scan_markers keeping the first "lladdr x" and the first "dev x".
RECURSIVE scan_markers_first(_, _, _, _)
scan_markers_first(parts, i, mac, iface) ==
    IF i > Len(parts) THEN [mac |-> mac, iface |-> iface]
    ELSE IF parts[i] = "lladdr" /\ i + 1 <= Len(parts)
         THEN scan_markers_first(parts, i + 1,
                  IF mac = None THEN Some(parts[i + 1]) ELSE mac, iface)
         ELSE IF parts[i] = "dev" /\ i + 1 <= Len(parts)
              THEN scan_markers_first(parts, i + 1, mac,
                       IF iface = None THEN Some(parts[i + 1]) ELSE iface)
              ELSE scan_markers_first(parts, i + 1, mac, iface)

\* The while loop of lines 164-172: the last "lladdr x" and the last "dev x".
RECURSIVE scan_markers(_, _, _, _)
scan_markers(parts, i, mac, iface) ==
    IF i > Len(parts) THEN [mac |-> mac, iface |-> iface]
    ELSE IF parts[i] = "lladdr" /\ i + 1 <= Len(parts)
         THEN scan_markers(parts, i + 1, Some(parts[i + 1]), iface)
         ELSE IF parts[i] = "dev" /\ i + 1 <= Len(parts)
              THEN scan_markers(parts, i + 1, mac, Some(parts[i + 1]))
              ELSE scan_markers(parts, i + 1, mac, iface)

\* neigh_line with the interface filter left out.
neigh_line_unfiltered(line, interface_filter) ==
    LET parts == SplitWhitespace(line)
    IN  IF Len(parts) < 6 THEN << >>
        ELSE LET ip == parts[1]
                 m  == scan_markers(parts, 1, None, None)
             IN  IF m.mac # None /\ m.iface # None
                 THEN << Device(ip, m.mac[1], m.iface[1]) >>
                 ELSE << >>

\* One iteration of the loop of parse_ip_neigh_entries.
neigh_line(line, interface_filter) ==
    LET parts == SplitWhitespace(line)
    IN  IF Len(parts) < 6 THEN << >>
        ELSE LET ip == parts[1]
                 m  == scan_markers(parts, 1, None, None)
             IN  IF /\ interface_filter # None
                    /\ m.iface # None
                    /\ m.iface[1] # interface_filter[1]
                 THEN << >>
                 ELSE IF m.mac # None /\ m.iface # None
                      THEN << Device(ip, m.mac[1], m.iface[1]) >>
                      ELSE << >>

\* arp_lines giving up at the first line that pushes no device.
RECURSIVE arp_lines_until_malformed(_, _, _, _)
arp_lines_until_malformed(ls, i, devices, interface_filter) ==
    IF i > Len(ls) THEN devices
    ELSE IF arp_line(ls[i], interface_filter) = << >> THEN devices
         ELSE arp_lines_until_malformed(ls, i + 1,
                  devices \o arp_line(ls[i], interface_filter), interface_filter)

RECURSIVE arp_lines(_, _, _, _)
arp_lines(ls, i, devices, interface_filter) ==
    IF i > Len(ls) THEN devices
    ELSE arp_lines(ls, i + 1, devices \o arp_line(ls[i], interface_filter),
                   interface_filter)

RECURSIVE neigh_lines(_, _, _, _)
neigh_lines(ls, i, devices, interface_filter) ==
    IF i > Len(ls) THEN devices
    ELSE neigh_lines(ls, i + 1, devices \o neigh_line(ls[i], interface_filter),
                     interface_filter)

\* parse_arp_entries: `devices` with the devices of `content` pushed; always Ok.
parse_arp_entries(content, devices, interface_filter) ==
    arp_lines(Lines(content), 1, devices, interface_filter)

\* parse_ip_neigh_entries: likewise; always Ok.
parse_ip_neigh_entries(content, devices, interface_filter) ==
    neigh_lines(Lines(content), 1, devices, interface_filter)

(***************************************************************************)
(* The reader command  sh -c "arp -a -n; echo '===SPLIT==='; ip neigh show"*)
(* is the environment: what Command::output() gives is an input.           *)
(*   invoked = FALSE          output() is Err (sh cannot be run)           *)
(*   success                  output.status.success()                      *)
(*   stdout                   output.stdout                                *)
(***************************************************************************)
SEPARATOR == "===SPLIT==="

Output(invoked, success, stdout) ==
    [invoked |-> invoked, success |-> success, stdout |-> stdout]

\* The Ok value of get_network_devices when output() succeeded.
get_network_devices(interface, command_output) ==
    IF command_output.success
    THEN LET parts == Split(command_output.stdout, SEPARATOR)
         IN  IF Len(parts) >= 2
             THEN parse_ip_neigh_entries(parts[2],
                      parse_arp_entries(parts[1], << >>, interface), interface)
             ELSE << >>
    ELSE << >>

(***************************************************************************)
(* What the reader command can print.  The lines are lines of `arp -a -n`  *)
(* and of `ip neigh show` as the two tools print them: numeric addresses,  *)
(* colon separated MACs (no address holds the '-' of Device::key).         *)
(***************************************************************************)
ARP_A_WLAN     == "? (192.168.1.5) at aa:bb:cc:dd:ee:ff [ether] on wlan0"
ARP_A_ETH      == "? (192.168.1.5) at aa:bb:cc:dd:ee:ff [ether] on eth0"
ARP_LOOPBACK   == "? (127.0.0.1) at 00:00:00:00:00:00 [ether] on lo"
ARP_INCOMPLETE == "? (192.168.1.9) at <incomplete> on wlan0"
NEIGH_A_WLAN   == "192.168.1.5 dev wlan0 lladdr aa:bb:cc:dd:ee:ff STALE"
NEIGH_A_ETH    == "192.168.1.5 dev eth0 lladdr aa:bb:cc:dd:ee:ff STALE"
NEIGH_B_ETH    == "192.168.1.6 dev eth0 lladdr 11:22:33:44:55:66 REACHABLE"
NEIGH_MCAST    == "224.0.0.5 dev wlan0 lladdr 01:00:5e:00:00:05 PERMANENT"
NEIGH_FAILED   == "192.168.1.7 dev eth0 FAILED"

\* The text of a sequence of lines, each ended by a line feed.
RECURSIVE Text(_)
Text(ls) == IF ls = << >> THEN "" ELSE Head(ls) \o "\n" \o Text(Tail(ls))

\* stdout of the script: the ARP table, the echoed separator, the neigh table.
Stdout(arp, neigh) == Text(arp) \o SEPARATOR \o "\n" \o Text(neigh)

ReaderOutputs ==
    { Output(FALSE, FALSE, ""),
      Output(TRUE, FALSE, Stdout(<< ARP_A_WLAN >>, << >>)),
      Output(TRUE, TRUE, ""),
      Output(TRUE, TRUE, Text(<< ARP_A_WLAN >>)),
      Output(TRUE, TRUE, Stdout(<< >>, << >>)),
      Output(TRUE, TRUE, Stdout(<< ARP_A_WLAN >>, << >>)),
      Output(TRUE, TRUE, Stdout(<< ARP_A_WLAN >>, << NEIGH_A_WLAN >>)),
      Output(TRUE, TRUE, Stdout(<< ARP_A_WLAN >>, << NEIGH_A_ETH >>)),
      Output(TRUE, TRUE, Stdout(<< ARP_A_ETH >>, << NEIGH_B_ETH >>)),
      Output(TRUE, TRUE, Stdout(<< ARP_LOOPBACK, ARP_INCOMPLETE >>,
                                << NEIGH_FAILED, NEIGH_B_ETH >>)),
      Output(TRUE, TRUE, Stdout(<< >>, << NEIGH_MCAST >>)) }

\* Args: --interval, --interface and --disconnect-timeout as given at startup.
Intervals == {5}
DisconnectTimeouts == {2, 10}
Interfaces == {None, Some("wlan0")}

\* get_network_devices, tabulated over the filters and reader outputs of the
\* model: each parse is computed once.
Snapshots ==
    {[interface |-> f, output |-> o, devices |-> get_network_devices(f, o)] :
        f \in Interfaces, o \in {r \in ReaderOutputs : r.invoked}}

(***************************************************************************)
(* The tracker: the body of the Ok arm of main's loop.                     *)
(***************************************************************************)
TrackedDevice(device, last_seen) == [device |-> device, last_seen |-> last_seen]

\* format_device_output(event, ip, mac, interface): the line it prints.
Event(kind, device) ==
    [kind |-> kind, ip |-> device.ip_address, mac |-> device.mac_address,
     interface |-> device.interface]

\* Insert that updates an existing entry's last_seen only and keeps its device.
InsertKeepsDevice(map, k, v) ==
    [j \in DOMAIN map \cup {k} |->
        IF j = k
        THEN (IF k \in DOMAIN map THEN [v EXCEPT !.device = map[k].device] ELSE v)
        ELSE map[j]]

\* Insert as entry(k).or_insert(v): an existing entry is left as it is.
InsertIfAbsent(map, k, v) ==
    [j \in DOMAIN map \cup {k} |-> IF j \in DOMAIN map THEN map[j] ELSE v]

\* HashMap::insert
Insert(map, k, v) == [j \in DOMAIN map \cup {k} |-> IF j = k THEN v ELSE map[j]]

\* RemoveAll with the remove call forgotten.
RemoveAllKeepsEntries(map, ks) == map

\* HashMap::remove, for every key of ks
RemoveAll(map, ks) == [j \in DOMAIN map \ ks |-> map[j]]

\* as_secs counting minutes, not seconds.
as_secs_in_minutes(d) == d \div (60 * TicksPerSec)

\* Duration::as_secs: the whole seconds of a duration of d ticks.
as_secs(d) == d \div TicksPerSec

\* Lines 212-213: current_device_keys, the set of the keys of the snapshot.
Keys(devices) == {key(devices[i]) : i \in DOMAIN devices}

\* IsNewConnection with the negation of line 220 dropped.
IsNewConnectionInverted(tracked, k) == k \in DOMAIN tracked

\* IsNewConnection with the test of line 220 dropped.
IsNewConnectionAlways(tracked, k) == TRUE

\* Line 220: the device is reported as a new connection.
IsNewConnection(tracked, k) == k \notin DOMAIN tracked

\* Lines 216-229: the loop over current_devices, from index i on.
RECURSIVE process_current(_, _, _, _, _)
process_current(devices, i, tracked, printed, instant) ==
    IF i > Len(devices) THEN [tracked |-> tracked, printed |-> printed]
    ELSE LET device == devices[i]
             k      == key(device)
         IN  process_current(devices, i + 1,
                 Insert(tracked, k, TrackedDevice(device, instant)),
                 IF IsNewConnection(tracked, k)
                 THEN Append(printed, Event("CONNECTED", device))
                 ELSE printed,
                 instant)

\* TimedOut with the subtraction the wrong way round:
\* last_seen.duration_since(now), which saturates to zero.
TimedOutReversed(tracked_device, instant, disconnect_timeout) ==
    as_secs(IF tracked_device.last_seen > instant
            THEN tracked_device.last_seen - instant ELSE 0) > disconnect_timeout

\* TimedOut with >= for >.
TimedOutInclusive(tracked_device, instant, disconnect_timeout) ==
    as_secs(instant - tracked_device.last_seen) >= disconnect_timeout

\* TimedOut comparing the duration in ticks, not in seconds, with the timeout.
TimedOutInTicks(tracked_device, instant, disconnect_timeout) ==
    instant - tracked_device.last_seen > disconnect_timeout

\* Line 236: the entry has not been seen for more than the timeout.
TimedOut(tracked_device, instant, disconnect_timeout) ==
    as_secs(instant - tracked_device.last_seen) > disconnect_timeout

\* Lines 233-242: the keys pushed to keys_to_remove.
KeysToRemove(tracked, current_device_keys, instant, disconnect_timeout) ==
    {k \in DOMAIN tracked :
        /\ TimedOut(tracked[k], instant, disconnect_timeout)
        /\ k \notin current_device_keys}

\* The orders in which a HashMap iteration can visit the keys of ks.
Orderings(ks) ==
    {o \in [1..Cardinality(ks) -> ks] : \A i, j \in DOMAIN o : o[i] = o[j] => i = j}

\* Lines 244-248: what the removal loop prints, keys_to_remove in this order.
report_disconnections(tracked, order) ==
    [i \in DOMAIN order |-> Event("DISCONNECTED", tracked[order[i]].device)]

\* The identity an event line shows: its IP and MAC columns.
Identity(e) == << e.ip, e.mac >>

\* `log` with the events of `printed` appended, each to its identity's list.
RECURSIVE Logged(_, _, _)
Logged(log, printed, i) ==
    IF i > Len(printed) THEN log
    ELSE LET e  == printed[i]
             id == Identity(e)
         IN  Logged([j \in DOMAIN log \cup {id} |->
                        IF j = id
                        THEN (IF id \in DOMAIN log THEN log[id] ELSE << >>) \o << e >>
                        ELSE log[j]],
                    printed, i + 1)

VARIABLES
    args,             \* the parsed command line
    tracked_devices,  \* HashMap<String, TrackedDevice>
    clock,            \* the monotonic clock, in ticks
    pc,               \* "poll": at line 207; "sleep": at line 259
    result,           \* the arm the last cycle took: "none", "ok", "err"
    output,           \* what Command::output() gave the last cycle
    current_devices,  \* the Vec<Device> of the last cycle
    now,              \* the Instant taken by the last Ok cycle
    events,           \* what the last cycle printed through format_device_output
    tracked_before,   \* history: tracked_devices when the last cycle began
    history,          \* history: every event printed so far, by identity
    input_text,       \* the &str handed to a parser called on its own
    input_tokens      \* history: the tokens input_text was written from, by line

vars == << args, tracked_devices, clock, pc, result, output, current_devices,
           now, events, tracked_before, history, input_text, input_tokens >>

Init ==
    /\ args \in [interval : Intervals, interface : Interfaces,
                 disconnect_timeout : DisconnectTimeouts]
    /\ tracked_devices = << >>
    /\ clock = 0
    /\ pc = "poll"
    /\ result = "none"
    /\ output = Output(FALSE, FALSE, "")
    /\ current_devices = << >>
    /\ now = 0
    /\ events = << >>
    /\ tracked_before = << >>
    /\ history = << >>
    /\ input_text = ""
    /\ input_tokens = << >>

\* PollOk reporting the disconnections before it walks the snapshot.
PollOkDisconnectsFirst ==
    /\ pc = "poll"
    /\ \E read \in Snapshots :
        /\ read.interface = args.interface
        /\ LET devices == read.devices
               keys    == Keys(devices)
               seen    == process_current(devices, 1, tracked_devices, << >>, clock)
               gone    == KeysToRemove(seen.tracked, keys, clock,
                                       args.disconnect_timeout)
           IN  \E order \in Orderings(gone) :
                LET printed == report_disconnections(seen.tracked, order) \o
                                   seen.printed
                IN  /\ output' = read.output
                    /\ current_devices' = devices
                    /\ now' = clock
                    /\ events' = printed
                    /\ tracked_devices' = RemoveAll(seen.tracked, gone)
                    /\ history' = Logged(history, printed, 1)
    /\ result' = "ok"
    /\ tracked_before' = tracked_devices
    /\ pc' = "sleep"
    /\ UNCHANGED << args, clock, input_text, input_tokens >>

\* Lines 207-253: get_network_devices returned Ok(current_devices).
\* (The "No devices detected" line of --verbose is not an event.)
PollOk ==
    /\ pc = "poll"
    /\ \E read \in Snapshots :
        /\ read.interface = args.interface
        /\ LET devices == read.devices
               keys    == Keys(devices)
               seen    == process_current(devices, 1, tracked_devices, << >>, clock)
               gone    == KeysToRemove(seen.tracked, keys, clock,
                                       args.disconnect_timeout)
           IN  \E order \in Orderings(gone) :
                LET printed == seen.printed \o
                                   report_disconnections(seen.tracked, order)
                IN  /\ output' = read.output
                    /\ current_devices' = devices
                    /\ now' = clock
                    /\ events' = printed
                    /\ tracked_devices' = RemoveAll(seen.tracked, gone)
                    /\ history' = Logged(history, printed, 1)
    /\ result' = "ok"
    /\ tracked_before' = tracked_devices
    /\ pc' = "sleep"
    /\ UNCHANGED << args, clock, input_text, input_tokens >>

\* PollErr taking the failure for an empty network: the map is cleared.
PollErrClearsTracked ==
    /\ pc = "poll"
    /\ \E read \in ReaderOutputs :
        /\ ~read.invoked
        /\ output' = read
    /\ result' = "err"
    /\ current_devices' = << >>
    /\ events' = << >>
    /\ tracked_before' = tracked_devices
    /\ tracked_devices' = << >>
    /\ pc' = "sleep"
    /\ UNCHANGED << args, clock, now, history, input_text, input_tokens >>

\* Lines 207, 254-256: get_network_devices returned Err, which is logged.
PollErr ==
    /\ pc = "poll"
    /\ \E read \in ReaderOutputs :
        /\ ~read.invoked
        /\ output' = read
    /\ result' = "err"
    /\ current_devices' = << >>
    /\ events' = << >>
    /\ tracked_before' = tracked_devices
    /\ pc' = "sleep"
    /\ UNCHANGED << args, tracked_devices, clock, now, history, input_text,
                    input_tokens >>

\* Line 259: thread::sleep, at least `interval` seconds; the clock has also
\* advanced by the time the reader command took.
Sleep ==
    /\ pc = "sleep"
    /\ \E jitter \in 0..MaxJitter :
        /\ clock + args.interval * TicksPerSec + jitter <= MaxClock
        /\ clock' = clock + args.interval * TicksPerSec + jitter
    /\ pc' = "poll"
    /\ UNCHANGED << args, tracked_devices, result, output, current_devices, now,
                    events, tracked_before, history, input_text, input_tokens >>

Next == PollOk \/ PollErr \/ Sleep

Spec == Init /\ [][Next]_vars

(***************************************************************************)
(* Vocabulary of the properties.  They speak of the cycle that ended last: *)
(* tracked_before is the map it started from, current_devices its snapshot,*)
(* events what it printed, now its Instant.                                *)
(***************************************************************************)
\* The events of the last cycle of this kind for this (ip, mac).
Printed(kind, ip, mac) ==
    {i \in DOMAIN events :
        events[i].kind = kind /\ events[i].ip = ip /\ events[i].mac = mac}

\* The disconnect timeout in ticks.
TimeoutTicks == args.disconnect_timeout * TicksPerSec

\* Ticks between the last cycle's Instant and the last_seen entry k had
\* when the cycle began.
ElapsedBefore(k) == now - tracked_before[k].last_seen

\* The last device of the snapshot with key k.
LastOccurrence(devices, k) ==
    devices[CHOOSE i \in DOMAIN devices :
                /\ key(devices[i]) = k
                /\ \A j \in DOMAIN devices : key(devices[j]) = k => j <= i]

\* The address classes the Device invariant rules out.
ExcludedAddress(ip) ==
    \/ StartsWith(ip, "127.")
    \/ StartsWith(ip, "224.")
    \/ StartsWith(ip, "255.")
    \/ ip = "::1"

DeviceA(interface) == Device("192.168.1.5", "aa:bb:cc:dd:ee:ff", interface)

(***************************************************************************)
(* C1.  A device of the snapshot whose key was not tracked when a          *)
(* successful cycle began gets exactly one CONNECTED event in that cycle,  *)
(* however often it occurs in the snapshot, and is tracked with            *)
(* last_seen = now when the cycle ends.                                    *)
(***************************************************************************)
C1_NewDeviceConnectsOnce ==
    result = "ok" =>
        \A i \in DOMAIN current_devices :
            LET d == current_devices[i]
            IN  key(d) \notin DOMAIN tracked_before =>
                    /\ Cardinality(Printed("CONNECTED", d.ip_address,
                                           d.mac_address)) = 1
                    /\ key(d) \in DOMAIN tracked_devices
                    /\ tracked_devices[key(d)].last_seen = now
                    /\ tracked_devices[key(d)].device.ip_address = d.ip_address
                    /\ tracked_devices[key(d)].device.mac_address = d.mac_address

\* A new device listed by the ARP table and by the neigh table in one cycle.
C1_Witness ==
    /\ result = "ok"
    /\ output.stdout = Stdout(<< ARP_A_WLAN >>, << NEIGH_A_WLAN >>)
    /\ current_devices = << DeviceA("wlan0"), DeviceA("wlan0") >>
    /\ key(DeviceA("wlan0")) \notin DOMAIN tracked_before
    /\ events = << Event("CONNECTED", DeviceA("wlan0")) >>
    /\ tracked_devices[key(DeviceA("wlan0"))].last_seen = now

(***************************************************************************)
(* C2.  A tracked device that is absent from the snapshot of a successful  *)
(* cycle, with now - last_seen at most disconnect_timeout (equality        *)
(* included), gets no DISCONNECTED event and its entry stays as it was.    *)
(***************************************************************************)
C2_NoDisconnectWithinTimeout ==
    result = "ok" =>
        \A k \in DOMAIN tracked_before :
            (k \notin Keys(current_devices) /\ ElapsedBefore(k) <= TimeoutTicks) =>
                /\ k \in DOMAIN tracked_devices
                /\ tracked_devices[k] = tracked_before[k]
                /\ Printed("DISCONNECTED", tracked_before[k].device.ip_address,
                           tracked_before[k].device.mac_address) = {}

\* An absent device exactly at the boundary, more than one interval after it
\* was last seen.
C2_Witness ==
    /\ result = "ok"
    /\ \E k \in DOMAIN tracked_before :
        /\ k \notin Keys(current_devices)
        /\ ElapsedBefore(k) = TimeoutTicks
        /\ ElapsedBefore(k) >= 2 * args.interval * TicksPerSec
        /\ k \in DOMAIN tracked_devices
    /\ events = << >>

(***************************************************************************)
(* C3.  A tracked device that is absent from the snapshot gets its         *)
(* DISCONNECTED event, and leaves the map, in the first successful cycle   *)
(* in which now - last_seen > disconnect_timeout, whether or not the       *)
(* elapsed time is a whole number of seconds.                              *)
(***************************************************************************)
C3_DisconnectWhenOverdue ==
    result = "ok" =>
        \A k \in DOMAIN tracked_before :
            (k \notin Keys(current_devices) /\ ElapsedBefore(k) > TimeoutTicks) =>
                /\ k \notin DOMAIN tracked_devices
                /\ Cardinality(Printed("DISCONNECTED",
                                       tracked_before[k].device.ip_address,
                                       tracked_before[k].device.mac_address)) = 1

(***************************************************************************)
(* C4.  In a successful cycle a device whose key is in the snapshot gets   *)
(* no DISCONNECTED event and is tracked when the cycle ends, however old   *)
(* its last_seen was; if it was tracked already it gets no CONNECTED event.*)
(***************************************************************************)
C4_PresentDeviceStays ==
    result = "ok" =>
        \A i \in DOMAIN current_devices :
            LET d == current_devices[i]
            IN  /\ key(d) \in DOMAIN tracked_devices
                /\ Printed("DISCONNECTED", d.ip_address, d.mac_address) = {}
                /\ key(d) \in DOMAIN tracked_before =>
                       Printed("CONNECTED", d.ip_address, d.mac_address) = {}

\* A device seen again after more than the timeout since it was last seen.
C4_Witness ==
    /\ result = "ok"
    /\ \E i \in DOMAIN current_devices :
        LET k == key(current_devices[i])
        IN  /\ k \in DOMAIN tracked_before
            /\ as_secs(ElapsedBefore(k)) > args.disconnect_timeout
            /\ tracked_devices[k].last_seen = now
    /\ events = << >>

(***************************************************************************)
(* C5.  The events printed for one identity (ip, mac), over the whole run, *)
(* alternate CONNECTED, DISCONNECTED, CONNECTED, ... and begin with        *)
(* CONNECTED.                                                              *)
(***************************************************************************)
C5_EventsAlternate ==
    \A id \in DOMAIN history :
        \A n \in DOMAIN history[id] :
            history[id][n].kind =
                (IF n % 2 = 1 THEN "CONNECTED" ELSE "DISCONNECTED")

\* An identity that connected, disconnected, connected again and disconnected.
C5_Witness ==
    \E id \in DOMAIN history : Len(history[id]) >= 4

(***************************************************************************)
(* C6.  No device with a loopback, multicast or broadcast looking address  *)
(* (127.*, 224.*, 255.*, ::1) is in the snapshot the parsers produce, is   *)
(* tracked, or is reported in a CONNECTED event.                           *)
(***************************************************************************)
C6_NoExcludedAddress ==
    /\ \A i \in DOMAIN current_devices :
           ~ExcludedAddress(current_devices[i].ip_address)
    /\ \A k \in DOMAIN tracked_devices :
           ~ExcludedAddress(tracked_devices[k].device.ip_address)
    /\ \A i \in DOMAIN events :
           events[i].kind = "CONNECTED" => ~ExcludedAddress(events[i].ip)

(***************************************************************************)
(* C7.  With an interface filter F, every device of the snapshot has       *)
(* interface F, and so has every device a CONNECTED event reports.         *)
(***************************************************************************)
C7_FilterKeepsOnlyInterface ==
    args.interface # None =>
        /\ \A i \in DOMAIN current_devices :
               current_devices[i].interface = args.interface[1]
        /\ \A i \in DOMAIN events :
               events[i].kind = "CONNECTED" =>
                   events[i].interface = args.interface[1]

\* Filter wlan0; the ARP table lists the device on wlan0, the neigh table
\* lists it on eth0: only the wlan0 entry is in the snapshot.
C7_Witness ==
    /\ args.interface = Some("wlan0")
    /\ result = "ok"
    /\ output.stdout = Stdout(<< ARP_A_WLAN >>, << NEIGH_A_ETH >>)
    /\ current_devices = << DeviceA("wlan0") >>
    /\ events = << Event("CONNECTED", DeviceA("wlan0")) >>

(***************************************************************************)
(* C8.  The interface is not part of the identity: a tracked key that is   *)
(* in the snapshot again, with whatever interface, gets no event, and the  *)
(* stored device becomes the last occurrence of the key in the snapshot;   *)
(* a DISCONNECTED event reports the stored device, interface included.     *)
(***************************************************************************)
C8_InterfaceOverwritten ==
    result = "ok" =>
        /\ \A k \in Keys(current_devices) \cap DOMAIN tracked_before :
               /\ \A i \in DOMAIN events :
                      << events[i].ip, events[i].mac >> #
                          << tracked_before[k].device.ip_address,
                             tracked_before[k].device.mac_address >>
               /\ tracked_devices[k].device = LastOccurrence(current_devices, k)
        /\ \A i \in DOMAIN events :
               events[i].kind = "DISCONNECTED" =>
                   \E k \in DOMAIN tracked_before \ Keys(current_devices) :
                       events[i] = Event("DISCONNECTED", tracked_before[k].device)

\* The device is tracked on wlan0; the snapshot lists it on wlan0 and then on
\* eth0: nothing is printed and the stored interface becomes eth0.
C8_Witness ==
    LET k == key(DeviceA("wlan0"))
    IN  /\ result = "ok"
        /\ k \in DOMAIN tracked_before
        /\ tracked_before[k].device = DeviceA("wlan0")
        /\ current_devices = << DeviceA("wlan0"), DeviceA("eth0") >>
        /\ tracked_devices[k].device = DeviceA("eth0")
        /\ events = << >>

(***************************************************************************)
(* C9.  A cycle whose reader could not be invoked prints no event and      *)
(* leaves the map as it was; the loop goes on to the sleep and to the next *)
(* cycle.                                                                  *)
(***************************************************************************)
C9_ReaderFailureChangesNothing ==
    result = "err" =>
        /\ events = << >>
        /\ tracked_devices = tracked_before
        /\ pc \in {"sleep", "poll"}
        /\ (pc = "sleep" /\
            clock + args.interval * TicksPerSec + MaxJitter <= MaxClock)
               => ENABLED Sleep
        /\ pc = "poll" => ENABLED PollOk

\* After a failed cycle and its sleep, the next cycle is about to start with
\* the devices still tracked.
C9_Witness ==
    /\ result = "err"
    /\ pc = "poll"
    /\ clock > now
    /\ tracked_devices # << >>
    /\ tracked_devices = tracked_before

(***************************************************************************)
(* C10.  An entry leaves the map only in a successful cycle whose snapshot *)
(* lacks its key and in which now - last_seen exceeds disconnect_timeout,  *)
(* and that cycle prints exactly one DISCONNECTED event for it.            *)
(***************************************************************************)
C10_RemovedOnlyByTimeout ==
    \A k \in DOMAIN tracked_before \ DOMAIN tracked_devices :
        /\ result = "ok"
        /\ k \notin Keys(current_devices)
        /\ ElapsedBefore(k) > TimeoutTicks
        /\ Cardinality({i \in DOMAIN events :
               events[i] = Event("DISCONNECTED", tracked_before[k].device)}) = 1

\* An entry was removed by the last cycle.
C10_Witness ==
    /\ result = "ok"
    /\ \E k \in DOMAIN tracked_before :
        /\ k \notin DOMAIN tracked_devices
        /\ events = << Event("DISCONNECTED", tracked_before[k].device) >>

(***************************************************************************)
(* The parsers called on their own.  The input text is written from token  *)
(* lists, so that what a parser returns can be compared with the tokens    *)
(* the text was made of.  A line takes one token, or none (""), from each  *)
(* slot in turn.                                                           *)
(***************************************************************************)
ArpSlots ==
    << {"?", ""},
       {"(192.168.1.5)", "((192.168.1.5))", "(127.0.0.1)"},
       {"at", "station", "xx"},
       {"aa:bb:cc:dd:ee:ff", "<incomplete>"},
       {"[ether]", ""},
       {"on", "in"},
       {"wlan0", "eth0"},
       {"", "PERM"} >>

NeighSlots ==
    << {"192.168.1.6", "224.0.0.5"},
       {"dev", "lladdr", ""},
       {"eth0", "wlan0"},
       {"lladdr", "dev", ""},
       {"11:22:33:44:55:66"},
       {"REACHABLE", ""},
       {"", "lladdr", "dev"},
       {"", "router", "wlan0"} >>

\* The token lists of the lines over a sequence of slots.
RECURSIVE Sentences(_)
Sentences(slots) ==
    IF slots = << >> THEN {<< >>}
    ELSE {(IF t = "" THEN << >> ELSE << t >>) \o rest :
             t \in Head(slots), rest \in Sentences(Tail(slots))}

\* The whitespace written between two tokens.
Gaps == {" ", " \t"}

\* The line of a token list.
RECURSIVE Join(_, _)
Join(tokens, gap) ==
    IF tokens = << >> THEN ""
    ELSE IF Len(tokens) = 1 THEN tokens[1]
         ELSE tokens[1] \o gap \o Join(Tail(tokens), gap)

ARP_A_WLAN_TOKENS ==
    << "?", "(192.168.1.5)", "at", "aa:bb:cc:dd:ee:ff", "[ether]", "on", "wlan0" >>
NEIGH_B_ETH_TOKENS ==
    << "192.168.1.6", "dev", "eth0", "lladdr", "11:22:33:44:55:66", "REACHABLE" >>

\* Lines neither tool prints an entry on.
MalformedLines ==
    { << >>,
      << "garbage" >>,
      << "?", "(192.168.1.9)", "at", "<incomplete>", "on", "wlan0" >>,
      << "192.168.1.7", "dev", "eth0", "FAILED" >>,
      << "Address", "HWtype", "HWaddress", "Flags", "Mask", "Iface" >> }

\* The inputs: every single line over the slots, and every malformed line
\* between two entries.
ParserInputs ==
    {<< l >> : l \in Sentences(ArpSlots) \cup Sentences(NeighSlots)}
    \cup {<< a, l, b >> : a \in {ARP_A_WLAN_TOKENS, NEIGH_B_ETH_TOKENS},
                          l \in MalformedLines,
                          b \in {ARP_A_WLAN_TOKENS, NEIGH_B_ETH_TOKENS}}

InitParse ==
    /\ args \in [interval : Intervals, interface : Interfaces,
                 disconnect_timeout : DisconnectTimeouts]
    /\ input_tokens \in ParserInputs
    /\ \E gap \in Gaps :
        input_text = Text([i \in DOMAIN input_tokens |-> Join(input_tokens[i], gap)])
    /\ tracked_devices = << >>
    /\ clock = 0
    /\ pc = "parse"
    /\ result = "none"
    /\ output = Output(FALSE, FALSE, "")
    /\ current_devices = << >>
    /\ now = 0
    /\ events = << >>
    /\ tracked_before = << >>
    /\ history = << >>

\* parse_arp_entries(input_text, &mut vec![], interface); it returns Ok(()).
ParseArp ==
    /\ pc = "parse"
    /\ current_devices' = parse_arp_entries(input_text, << >>, args.interface)
    /\ result' = "ok"
    /\ pc' = "parse_arp_entries"
    /\ UNCHANGED << args, tracked_devices, clock, output, now, events,
                    tracked_before, history, input_text, input_tokens >>

\* parse_ip_neigh_entries(input_text, &mut vec![], interface); it returns Ok(()).
ParseNeigh ==
    /\ pc = "parse"
    /\ current_devices' = parse_ip_neigh_entries(input_text, << >>, args.interface)
    /\ result' = "ok"
    /\ pc' = "parse_ip_neigh_entries"
    /\ UNCHANGED << args, tracked_devices, clock, output, now, events,
                    tracked_before, history, input_text, input_tokens >>

NextParse == ParseArp \/ ParseNeigh

SpecParse == InitParse /\ [][NextParse]_vars

\* The filter lets this interface through.
Admits(interface_filter, iface) ==
    interface_filter = None \/ interface_filter = Some(iface)

\* The token with every leading '(' and every trailing ')' taken off.
Stripped(t) ==
    LET first == IF \A i \in 1..Len(t) : Char(t, i) = "(" THEN Len(t) + 1
                 ELSE CHOOSE i \in 1..Len(t) :
                         /\ Char(t, i) # "("
                         /\ \A j \in 1..(i - 1) : Char(t, j) = "("
        last  == IF \A i \in first..Len(t) : Char(t, i) = ")" THEN first - 1
                 ELSE CHOOSE i \in first..Len(t) :
                         /\ Char(t, i) # ")"
                         /\ \A j \in (i + 1)..Len(t) : Char(t, j) = ")"
    IN  SubSeq(t, first, last)

\* What parse_arp_entries pushes for a line of these tokens, the filter and
\* the address exclusion applied.
ArpExpected(tokens, interface_filter) ==
    IF /\ Len(tokens) >= 7
       /\ \E i \in DOMAIN tokens : Contains(tokens[i], "at")
       /\ \E i \in DOMAIN tokens : Contains(tokens[i], "on")
       /\ Admits(interface_filter, tokens[7])
       /\ ~ExcludedAddress(Stripped(tokens[2]))
    THEN << Device(Stripped(tokens[2]), tokens[4], tokens[7]) >>
    ELSE << >>

(***************************************************************************)
(* C11.  parse_arp_entries, for a line that contains "at" and "on" and has *)
(* at least 7 whitespace-separated tokens, pushes one device with          *)
(* ip = token[1] without its leading '(' and trailing ')', mac = token[3], *)
(* interface = token[6], unless the filter or the address exclusion drops  *)
(* it; it pushes nothing for any other line; for the line                  *)
(* "? (192.168.1.5) at aa:bb:cc:dd:ee:ff [ether] on wlan0" and no filter   *)
(* the result is the one device 192.168.1.5, aa:bb:cc:dd:ee:ff, wlan0.     *)
(***************************************************************************)
C11_ArpLineFields ==
    (pc = "parse_arp_entries" /\ Len(input_tokens) = 1) =>
        /\ current_devices = ArpExpected(input_tokens[1], args.interface)
        /\ (input_tokens[1] = ARP_A_WLAN_TOKENS /\ args.interface = None) =>
              current_devices =
                  << Device("192.168.1.5", "aa:bb:cc:dd:ee:ff", "wlan0") >>

\* A line with doubled parentheses on its address was parsed under no filter.
C11_Witness ==
    /\ pc = "parse_arp_entries"
    /\ args.interface = None
    /\ input_tokens = << << "?", "((192.168.1.5))", "at", "aa:bb:cc:dd:ee:ff",
                            "[ether]", "on", "eth0" >> >>
    /\ current_devices = << Device("192.168.1.5", "aa:bb:cc:dd:ee:ff", "eth0") >>

\* The positions of this marker that have a token after them.
Followed(tokens, marker) == {i \in 1..(Len(tokens) - 1) : tokens[i] = marker}

\* The token after the last such marker.
AfterLast(tokens, marker) ==
    tokens[(CHOOSE i \in Followed(tokens, marker) :
               \A j \in Followed(tokens, marker) : j <= i) + 1]

\* The line has the shape C12 speaks of.
NeighEntry(tokens) ==
    /\ Len(tokens) >= 6
    /\ Followed(tokens, "lladdr") # {}
    /\ Followed(tokens, "dev") # {}

(***************************************************************************)
(* C12.  parse_ip_neigh_entries, for every line of at least 6 tokens with  *)
(* a marker "lladdr" followed by a token and a marker "dev" followed by a  *)
(* token, pushes a device with ip = token[0], mac = the token after        *)
(* "lladdr", interface = the token after "dev"; a line with fewer than 6   *)
(* tokens or without either marker pushes nothing; the line                *)
(* "192.168.1.6 dev eth0 lladdr 11:22:33:44:55:66 REACHABLE" with no       *)
(* filter gives the one device 192.168.1.6, 11:22:33:44:55:66, eth0.       *)
(* As stated, whatever the interface filter: this is violated.             *)
(***************************************************************************)
C12_NeighLineFields ==
    (pc = "parse_ip_neigh_entries" /\ Len(input_tokens) = 1) =>
        LET tokens == input_tokens[1]
        IN  /\ NeighEntry(tokens) =>
                /\ Len(current_devices) = 1
                /\ current_devices[1].ip_address = tokens[1]
                /\ \E i \in Followed(tokens, "lladdr") :
                      current_devices[1].mac_address = tokens[i + 1]
                /\ \E i \in Followed(tokens, "dev") :
                      current_devices[1].interface = tokens[i + 1]
            /\ ~NeighEntry(tokens) => current_devices = << >>
            /\ (tokens = NEIGH_B_ETH_TOKENS /\ args.interface = None) =>
                  current_devices =
                      << Device("192.168.1.6", "11:22:33:44:55:66", "eth0") >>

\* What parse_ip_neigh_entries pushes for a line of these tokens, the filter
\* applied.
NeighExpected(tokens, interface_filter) ==
    IF NeighEntry(tokens) /\ Admits(interface_filter, AfterLast(tokens, "dev"))
    THEN << Device(tokens[1], AfterLast(tokens, "lladdr"),
                   AfterLast(tokens, "dev")) >>
    ELSE << >>

(***************************************************************************)
(* C12, amended.  The same, for the lines the interface filter lets        *)
(* through: with no filter, or when the token after the last "dev" is the  *)
(* filter, the line pushes the device with ip = token[0], mac = the token  *)
(* after the last "lladdr", interface = the token after the last "dev";    *)
(* every other line pushes nothing.                                        *)
(***************************************************************************)
C12_NeighLineFieldsFiltered ==
    (pc = "parse_ip_neigh_entries" /\ Len(input_tokens) = 1) =>
        LET tokens == input_tokens[1]
        IN  /\ current_devices = NeighExpected(tokens, args.interface)
            /\ (tokens = NEIGH_B_ETH_TOKENS /\ args.interface = None) =>
                  current_devices =
                      << Device("192.168.1.6", "11:22:33:44:55:66", "eth0") >>

\* A line with two "dev" markers was parsed under the filter wlan0: the
\* later marker names the interface.
C12_Witness ==
    /\ pc = "parse_ip_neigh_entries"
    /\ args.interface = Some("wlan0")
    /\ input_tokens = << << "192.168.1.6", "dev", "eth0", "lladdr",
                            "11:22:33:44:55:66", "REACHABLE", "dev", "wlan0" >> >>
    /\ current_devices = << Device("192.168.1.6", "11:22:33:44:55:66", "wlan0") >>

(***************************************************************************)
(* C13.  Within one poll cycle every CONNECTED event is printed before     *)
(* every DISCONNECTED event.                                               *)
(***************************************************************************)
C13_ConnectedBeforeDisconnected ==
    \A i, j \in DOMAIN events :
        (events[i].kind = "CONNECTED" /\ events[j].kind = "DISCONNECTED") => i < j

\* A cycle printed events of both kinds.
C13_Witness ==
    /\ result = "ok"
    /\ \E i, j \in DOMAIN events :
          events[i].kind = "CONNECTED" /\ events[j].kind = "DISCONNECTED"

(***************************************************************************)
(* The loop on reader output whose addresses hold the '-' of Device::key.  *)
(* The parsers take any token for an address, so these two lines give the  *)
(* devices ("192.168.1.5", "aa-bb") and ("192.168.1.5-aa", "bb"), which    *)
(* differ in ip and in mac.                                                *)
(***************************************************************************)
NEIGH_DASH_MAC == "192.168.1.5 dev wlan0 lladdr aa-bb REACHABLE"
NEIGH_DASH_IP  == "192.168.1.5-aa dev wlan0 lladdr bb REACHABLE"

ReaderOutputsAnyAddress ==
    { Output(TRUE, TRUE, Stdout(<< >>, << >>)),
      Output(TRUE, TRUE, Stdout(<< >>, << NEIGH_DASH_MAC >>)),
      Output(TRUE, TRUE, Stdout(<< >>, << NEIGH_DASH_IP >>)),
      Output(TRUE, TRUE, Stdout(<< >>, << NEIGH_DASH_MAC, NEIGH_DASH_IP >>)),
      Output(TRUE, TRUE, Stdout(<< ARP_A_WLAN >>, << NEIGH_DASH_IP >>)) }

SnapshotsAnyAddress ==
    {[interface |-> f, output |-> o, devices |-> get_network_devices(f, o)] :
        f \in Interfaces, o \in ReaderOutputsAnyAddress}

\* Lines 207-253, as PollOk, on these reader outputs.
PollOkAnyAddress ==
    /\ pc = "poll"
    /\ \E read \in SnapshotsAnyAddress :
        /\ read.interface = args.interface
        /\ LET devices == read.devices
               keys    == Keys(devices)
               seen    == process_current(devices, 1, tracked_devices, << >>, clock)
               gone    == KeysToRemove(seen.tracked, keys, clock,
                                       args.disconnect_timeout)
           IN  \E order \in Orderings(gone) :
                LET printed == seen.printed \o
                                   report_disconnections(seen.tracked, order)
                IN  /\ output' = read.output
                    /\ current_devices' = devices
                    /\ now' = clock
                    /\ events' = printed
                    /\ tracked_devices' = RemoveAll(seen.tracked, gone)
                    /\ history' = Logged(history, printed, 1)
    /\ result' = "ok"
    /\ tracked_before' = tracked_devices
    /\ pc' = "sleep"
    /\ UNCHANGED << args, clock, input_text, input_tokens >>

NextAnyAddress == PollOkAnyAddress \/ PollErr \/ Sleep

SpecAnyAddress == Init /\ [][NextAnyAddress]_vars

\* The (ip, mac) pair of a device.
Pair(d) == << d.ip_address, d.mac_address >>

\* The pairs of the devices of a snapshot, and of the entries of a map.
SnapshotPairs(devices) == {Pair(devices[i]) : i \in DOMAIN devices}
TrackedPairs(tracked) == {Pair(tracked[k].device) : k \in DOMAIN tracked}

(***************************************************************************)
(* C14.  Two devices whose (ip, mac) pairs differ are tracked as two       *)
(* distinct entries, whatever the strings hold, '-' included.  After an Ok *)
(* cycle: every pair of the snapshot has an entry of its own; a pair that  *)
(* had no entry gets its CONNECTED; an entry whose pair is not in the      *)
(* snapshot keeps its device and last_seen, or is removed; and such an     *)
(* entry, when overdue, is removed with a DISCONNECTED.                    *)
(***************************************************************************)
C14_DistinctPairsDistinctEntries ==
    result = "ok" =>
        /\ SnapshotPairs(current_devices) \subseteq TrackedPairs(tracked_devices)
        /\ \A i \in DOMAIN current_devices :
              Pair(current_devices[i]) \notin TrackedPairs(tracked_before) =>
                  Printed("CONNECTED", current_devices[i].ip_address,
                          current_devices[i].mac_address) # {}
        /\ \A k \in DOMAIN tracked_before :
              Pair(tracked_before[k].device) \notin SnapshotPairs(current_devices) =>
                  /\ k \in DOMAIN tracked_devices =>
                        tracked_devices[k] = tracked_before[k]
                  /\ TimedOut(tracked_before[k], now, args.disconnect_timeout) =>
                        /\ k \notin DOMAIN tracked_devices
                        /\ Printed("DISCONNECTED",
                                   tracked_before[k].device.ip_address,
                                   tracked_before[k].device.mac_address) # {}

\* The reader command ran, and exited non-zero, printed nothing, or printed
\* no separator.
Degraded(command_output) ==
    /\ command_output.invoked
    /\ \/ ~command_output.success
       \/ command_output.stdout = ""
       \/ ~Contains(command_output.stdout, SEPARATOR)

\* The entries the last cycle removed.
Evicted == DOMAIN tracked_before \ DOMAIN tracked_devices

(***************************************************************************)
(* C15.  When the reader command runs but exits non-zero, prints nothing,  *)
(* or prints no "===SPLIT===", get_network_devices returns Ok with an      *)
(* empty snapshot, and the cycle is a cycle of zero devices: it prints no  *)
(* CONNECTED, and it removes, each with a DISCONNECTED, exactly the        *)
(* tracked devices whose elapsed time exceeds disconnect_timeout.          *)
(***************************************************************************)
C15_DegradedOutputIsEmptySnapshot ==
    Degraded(output) =>
        /\ result = "ok"
        /\ current_devices = << >>
        /\ \A i \in DOMAIN events : events[i].kind = "DISCONNECTED"
        /\ Evicted = {k \in DOMAIN tracked_before : ElapsedBefore(k) > TimeoutTicks}
        /\ \A k \in Evicted :
              Printed("DISCONNECTED", tracked_before[k].device.ip_address,
                      tracked_before[k].device.mac_address) # {}
        /\ Len(events) = Cardinality(Evicted)

\* The line pushes a device under this parser.
WellFormed(parser, tokens, interface_filter) ==
    IF parser = "parse_arp_entries"
    THEN ArpExpected(tokens, interface_filter) # << >>
    ELSE NeighExpected(tokens, interface_filter) # << >>

\* The devices of the lines i.. of the input, line by line, each line on its
\* own.
RECURSIVE LineByLine(_, _, _, _)
LineByLine(parser, lines, i, interface_filter) ==
    IF i > Len(lines) THEN << >>
    ELSE (IF parser = "parse_arp_entries"
          THEN ArpExpected(lines[i], interface_filter)
          ELSE NeighExpected(lines[i], interface_filter))
         \o LineByLine(parser, lines, i + 1, interface_filter)

(***************************************************************************)
(* C16.  Neither parser returns an error: on every input text both return  *)
(* Ok; a malformed line contributes no device, and the well-formed lines   *)
(* before and after it contribute theirs: the result is, in order, the     *)
(* devices of the well-formed lines, one each.                             *)
(***************************************************************************)
C16_ParsersSkipMalformedLines ==
    pc \in {"parse_arp_entries", "parse_ip_neigh_entries"} =>
        /\ result = "ok"
        /\ current_devices = LineByLine(pc, input_tokens, 1, args.interface)
        /\ Len(current_devices) =
              Cardinality({i \in DOMAIN input_tokens :
                              WellFormed(pc, input_tokens[i], args.interface)})

\* An ARP entry, a line of garbage and the ARP entry again were parsed: the
\* entry was pushed twice.
C16_Witness ==
    /\ pc = "parse_arp_entries"
    /\ result = "ok"
    /\ input_tokens = << ARP_A_WLAN_TOKENS, << "garbage" >>, ARP_A_WLAN_TOKENS >>
    /\ current_devices = << DeviceA("wlan0"), DeviceA("wlan0") >>

(***************************************************************************)
(* C17.  The timeout check does not depend on the poll interval: when      *)
(* interval > disconnect_timeout a single missed poll is enough to evict.  *)
(* Every entry the cycle began with and the snapshot does not hold is      *)
(* removed, with its DISCONNECTED, in that cycle; so a device visible in   *)
(* alternate cycles can be CONNECTED, DISCONNECTED in the next cycle and   *)
(* CONNECTED again in the one after (the witness).                         *)
(***************************************************************************)
C17_SingleMissEvicts ==
    (args.interval > args.disconnect_timeout /\ result = "ok") =>
        \A k \in DOMAIN tracked_before :
            k \notin Keys(current_devices) =>
                /\ k \notin DOMAIN tracked_devices
                /\ Printed("DISCONNECTED", tracked_before[k].device.ip_address,
                           tracked_before[k].device.mac_address) # {}

\* The third cycle has just ended (two sleeps at most have passed), and one
\* device has been CONNECTED, DISCONNECTED and CONNECTED: one event a cycle.
C17_Witness ==
    /\ args.interval > args.disconnect_timeout
    /\ result = "ok"
    /\ now <= 2 * (args.interval * TicksPerSec + MaxJitter)
    /\ \E id \in DOMAIN history :
          /\ [i \in DOMAIN history[id] |-> history[id][i].kind] =
                 << "CONNECTED", "DISCONNECTED", "CONNECTED" >>
          /\ Printed("CONNECTED", id[1], id[2]) # {}

(***************************************************************************)
(* The loop never stops: Command::output() returns, with Ok or with Err,   *)
(* and thread::sleep returns.  Which of the two arms a cycle takes is up   *)
(* to the environment, so fairness is on the step of the loop only.  The   *)
(* clock of the model ends at MaxClock, where Sleep is disabled.  The run  *)
(* is one with --interface wlan0.                                          *)
(***************************************************************************)
InitFair == Init /\ args.interface = Some("wlan0")

FairSpec == InitFair /\ [][Next]_vars /\ WF_vars(Next)

\* The keys a snapshot of the model can hold.
TrackableKeys == UNION {Keys(read.devices) : read \in Snapshots}

\* A poll at this tick or later takes place in every fair behaviour: Sleep
\* is enabled as long as clock + interval is within MaxClock.
LastPollAtLeast == MaxClock - args.interval * TicksPerSec + 1

\* Entry k is tracked and was absent from the Ok cycle that just ended, and
\* the clock of the model runs long enough for k to become overdue.
AbsentWithTimeLeft(k) ==
    /\ result = "ok"
    /\ k \in DOMAIN tracked_devices
    /\ k \notin Keys(current_devices)
    /\ tracked_devices[k].last_seen + (args.disconnect_timeout + 1) * TicksPerSec
           <= LastPollAtLeast

\* The cycle that just ended removed entry k and printed its DISCONNECTED.
Disconnected(k) ==
    /\ k \in DOMAIN tracked_before
    /\ k \notin DOMAIN tracked_devices
    /\ Printed("DISCONNECTED", tracked_before[k].device.ip_address,
               tracked_before[k].device.mac_address) # {}

\* The cycle that just ended failed with Err while entry k was overdue.
FailedWhileOverdue(k) ==
    /\ pc = "sleep"
    /\ result = "err"
    /\ k \in DOMAIN tracked_devices
    /\ TimedOut(tracked_devices[k], clock, args.disconnect_timeout)

(***************************************************************************)
(* C18.  Liveness: a tracked device that never again appears in a snapshot *)
(* is, as the clock advances and Ok cycles keep occurring, eventually      *)
(* reported DISCONNECTED and untracked: from a state where it is tracked   *)
(* and absent, it is eventually disconnected, unless it appears again or   *)
(* the cycles in which it is overdue fail.  And a cycle that fails with    *)
(* Err (as any step that is not an Ok cycle) leaves every entry tracked    *)
(* and prints nothing, so a device stays tracked for as long as every      *)
(* cycle fails.                                                            *)
(***************************************************************************)
C18_EventuallyDisconnected ==
    /\ \A k \in TrackableKeys :
          AbsentWithTimeLeft(k) ~>
              \/ Disconnected(k)
              \/ k \in Keys(current_devices)
              \/ FailedWhileOverdue(k)
    /\ [][~(pc' = "sleep" /\ result' = "ok") =>
              (tracked_devices' = tracked_devices /\ history' = history)]_vars

\* An entry that the clock of the model left time to become overdue has been
\* disconnected.
C18_Witness ==
    /\ result = "ok"
    /\ \E k \in TrackableKeys :
          /\ Disconnected(k)
          /\ tracked_before[k].last_seen
                 + (args.disconnect_timeout + 1) * TicksPerSec <= LastPollAtLeast

\* The keys of the devices the last cycle printed DISCONNECTED for.
DisconnectedKeys ==
    {key(Device(events[i].ip, events[i].mac, events[i].interface)) :
        i \in {n \in DOMAIN events : events[n].kind = "DISCONNECTED"}}

(***************************************************************************)
(* C19.  At the end of every Ok cycle: every tracked entry has             *)
(* last_seen <= now; every key of the snapshot is tracked with             *)
(* last_seen = now; no tracked entry is both absent from the snapshot and  *)
(* overdue (whole seconds since last_seen greater than disconnect_timeout);*)
(* and the tracked keys are the keys tracked before and the snapshot keys, *)
(* less the keys evicted in this cycle.                                    *)
(***************************************************************************)
C19_EndOfCycle ==
    (pc = "sleep" /\ result = "ok") =>
        /\ \A k \in DOMAIN tracked_devices : tracked_devices[k].last_seen <= now
        /\ \A k \in Keys(current_devices) :
              k \in DOMAIN tracked_devices /\ tracked_devices[k].last_seen = now
        /\ \A k \in DOMAIN tracked_devices :
              ~(/\ k \notin Keys(current_devices)
                /\ as_secs(now - tracked_devices[k].last_seen)
                       > args.disconnect_timeout)
        /\ DOMAIN tracked_devices =
              (DOMAIN tracked_before \cup Keys(current_devices)) \ DisconnectedKeys

\* A cycle with a snapshot device refreshed, an absent entry kept and another
\* one evicted.
C19_Witness ==
    /\ pc = "sleep"
    /\ result = "ok"
    /\ DisconnectedKeys # {}
    /\ Keys(current_devices) \cap DOMAIN tracked_before # {}
    /\ \E k \in DOMAIN tracked_devices : tracked_devices[k].last_seen < now

====
